---- MODULE Spec2Model ----
(***************************************************************************)
(* Model of routes/chat_routes_semantic.py: the lazily constructed         *)
(* SemanticChatbot singleton (get_semantic_bot), the prewarm thread        *)
(* (initialize_bot_background) and the message exchange (send_message).    *)
(*                                                                         *)
(* Threads: 0 is the ChatbotPrewarm thread, 1..NumRequests are request     *)
(* threads.  Strings that the code slices or strips are sequences of       *)
(* one-character strings.                                                  *)
(*                                                                         *)
(* Spec    : the request threads run send_message, which calls             *)
(*           get_semantic_bot.                                             *)
(* SpecBot : the singleton alone, called by the prewarm thread and by the  *)
(*           request threads, with a clock that measures blocked waits.    *)
(* SpecLive : the singleton without the clock, under fair scheduling.      *)
(* SpecStatus : the singleton with the startup caller and chatbot_status.  *)
(* SpecClean  : _clean_for_json applied once and twice to every value.     *)
(* SpecTitle, SpecEngine : send_message with the engine built already, in  *)
(*           runs that differ in the requests, the engine's signature and  *)
(*           results, and the conversation's title and earlier messages.   *)
(***************************************************************************)
EXTENDS Integers, Sequences, FiniteSets, TLC

\* ------------------------------------------------------------------ bounds
NumRequests == 2        \* request threads beside the prewarm thread
MaxFail == 2            \* SemanticChatbot() raises at most this many times
TickSeconds == 30       \* seconds that pass in one step of the clock
MaxLen == 2             \* longest list inside a list or a dict
MaxPrior == 15          \* most messages a conversation has before the requests
MaxContent == 70        \* longest message content

\* --------------------------------------------------------- program constants
WaitTimeout == 60       \* _bot_ready_event.wait(timeout=60)
HistoryLimit == 10      \* .limit(10)
TitleLimit == 50        \* user_message_content[:50]

Prewarm == 0
Requests == 1..NumRequests
Threads == {Prewarm} \cup Requests

None == 0               \* _semantic_bot = None; handles are 1, 2, ...
Free == -1              \* _bot_load_lock is not held

VARIABLES
    \* module globals, lines 22-25
    semantic_bot,       \* _semantic_bot: None or the handle
    bot_loading,        \* _bot_loading
    lock,               \* _bot_load_lock: Free or the thread that holds it
    ready_event,        \* _bot_ready_event is set
    \* one get_semantic_bot() activation per thread
    gpc,                \* position in get_semantic_bot
    gres,               \* what the activation returned or raised
    waited,             \* seconds the thread has been blocked in its current wait
    \* bookkeeping about SemanticChatbot()
    nStarted,           \* SemanticChatbot() executions begun
    nBuilt,             \* SemanticChatbot() executions that returned
    nFailed,            \* SemanticChatbot() executions that raised
    returned,           \* handles get_semantic_bot() has returned so far
    sawFail,            \* threads that were blocked when a construction failed
    \* persistence collaborator (committed state)
    rows,               \* committed Message rows
    conv,               \* committed Conversation 1: title, updated_at
    now,                \* datetime.utcnow()
    touched,            \* per request: the updated_at its commit wrote, 0 if none
    \* one send_message activation per request thread
    spc,                \* position in send_message
    req,                \* the request: conversation_id, user, body
    content,            \* user_message_content
    loaded,             \* the Conversation object as loaded at line 203
    pending,            \* rows added to db.session, not committed
    convPending,        \* attribute changes of the conversation, not committed
    exc,                \* the exception raised last
    ai,                 \* ai_response
    resp,               \* the HTTP response
    called,             \* the request has called get_semantic_bot()
    \* chatbot_status and initialize_bot_background
    statusResp,         \* the status chatbot_status() reported last
    startup,            \* the caller of initialize_bot_background()
    uncaught,           \* an exception has escaped the prewarm thread
    \* the engine and what send_message hands to it
    scenario,           \* the run: arriving requests, the engine's signature and results
    created,            \* per request: created_at of its user and assistant message
    history,            \* per request: conversation_history
    current_user_id,    \* bot.current_user_id
    seenUser,           \* per request: bot.current_user_id as process_message starts
    entArg,             \* per request: the argument of set_entities
    \* _clean_for_json applied to a value
    cx,                 \* the value
    order,              \* the iteration order of sets in this run
    c1,                 \* _clean_for_json(cx)
    c2                  \* _clean_for_json(_clean_for_json(cx))

botVars == <<semantic_bot, bot_loading, lock, ready_event>>
callVars == <<gpc, gres, waited>>
ghostVars == <<nStarted, nBuilt, nFailed, returned, sawFail>>
dbVars == <<rows, conv, now, touched>>
sendVars == <<spc, req, content, loaded, pending, convPending, exc, ai, resp, called>>
statusVars == <<statusResp, startup, uncaught>>
engineVars == <<scenario, created, history, current_user_id, seenUser, entArg>>
cleanVars == <<cx, order, c1, c2>>
extVars == <<statusVars, engineVars, cleanVars>>
vars == <<botVars, callVars, ghostVars, dbVars, sendVars, extVars>>

Min(a, b) == IF a < b THEN a ELSE b

\* ------------------------------------------------- get_semantic_bot results
NoResult == [kind |-> "none", h |-> None, msg |-> ""]
Handle(b) == [kind |-> "handle", h |-> b, msg |-> ""]
\* line 48
TimeoutRaised == [kind |-> "TimeoutError", h |-> None,
                  msg |-> "Chatbot initialization timed out after 60 seconds"]
\* lines 82-85
InitRaised == [kind |-> "RuntimeError", h |-> None,
               msg |-> "Chatbot initialization failed"]

\* A thread blocked in a wait that the clock measures: on the lock while
\* another thread holds it (line 39), or on the event while it is clear (47).
Blocked(t) ==
    \/ gpc[t] = "acquire" /\ lock # Free
    \/ gpc[t] = "wait_event" /\ ~ready_event

\* ---------------------------------------------------------- get_semantic_bot

\* lines 35-36, mutated: no fast path, every call goes to the lock.
FastPathLocks(t) ==
    /\ gpc[t] = "start"
    /\ gpc' = [gpc EXCEPT ![t] = "acquire"]
    /\ UNCHANGED <<extVars, botVars, gres, returned, waited, nStarted, nBuilt, nFailed,
                   sawFail, dbVars, sendVars>>

\* lines 35-36: the unlocked fast path.
FastPath(t) ==
    /\ gpc[t] = "start"
    /\ IF semantic_bot # None
         THEN /\ gpc' = [gpc EXCEPT ![t] = "done"]
              /\ gres' = [gres EXCEPT ![t] = Handle(semantic_bot)]
              /\ returned' = returned \cup {semantic_bot}
         ELSE /\ gpc' = [gpc EXCEPT ![t] = "acquire"]
              /\ UNCHANGED <<gres, returned>>
    /\ UNCHANGED <<extVars, botVars, waited, nStarted, nBuilt, nFailed, sawFail, dbVars, sendVars>>

\* line 39: with _bot_load_lock (a blocking acquire without timeout).
AcquireLock(t) ==
    /\ gpc[t] = "acquire"
    /\ lock = Free
    /\ lock' = t
    /\ gpc' = [gpc EXCEPT ![t] = "locked"]
    /\ waited' = [waited EXCEPT ![t] = 0]
    /\ UNCHANGED <<extVars, semantic_bot, bot_loading, ready_event, gres, ghostVars, dbVars, sendVars>>

\* lines 41-52, mutated: the double-check after acquiring the lock is missing.
CheckLockedNoRecheck(t) ==
    /\ gpc[t] = "locked"
    /\ IF bot_loading
         THEN /\ gpc' = [gpc EXCEPT ![t] = "wait_event"]
              /\ UNCHANGED <<bot_loading, nStarted>>
         ELSE /\ bot_loading' = TRUE
              /\ nStarted' = nStarted + 1
              /\ gpc' = [gpc EXCEPT ![t] = "construct"]
    /\ UNCHANGED <<extVars, semantic_bot, lock, ready_event, gres, waited, nBuilt, nFailed,
                   returned, sawFail, dbVars, sendVars>>

\* lines 41-52, mutated: the lock is released once the call has marked the
\* construction in progress, so that later callers reach the event wait.
CheckLockedReleases(t) ==
    /\ gpc[t] = "locked"
    /\ IF semantic_bot # None
         THEN /\ gpc' = [gpc EXCEPT ![t] = "exit_with"]
              /\ gres' = [gres EXCEPT ![t] = Handle(semantic_bot)]
              /\ UNCHANGED <<bot_loading, nStarted, lock>>
         ELSE IF bot_loading
         THEN /\ gpc' = [gpc EXCEPT ![t] = "wait_event"]
              /\ UNCHANGED <<bot_loading, nStarted, gres, lock>>
         ELSE /\ bot_loading' = TRUE
              /\ nStarted' = nStarted + 1
              /\ lock' = Free
              /\ gpc' = [gpc EXCEPT ![t] = "construct"]
              /\ UNCHANGED gres
    /\ UNCHANGED <<extVars, semantic_bot, ready_event, waited, nBuilt, nFailed,
                   returned, sawFail, dbVars, sendVars>>

\* lines 41-52: the double-check, the _bot_loading check, and marking in-progress.
CheckLocked(t) ==
    /\ gpc[t] = "locked"
    /\ IF semantic_bot # None
         THEN /\ gpc' = [gpc EXCEPT ![t] = "exit_with"]
              /\ gres' = [gres EXCEPT ![t] = Handle(semantic_bot)]
              /\ UNCHANGED <<bot_loading, nStarted>>
         ELSE IF bot_loading
         THEN /\ gpc' = [gpc EXCEPT ![t] = "wait_event"]
              /\ UNCHANGED <<bot_loading, nStarted, gres>>
         ELSE /\ bot_loading' = TRUE
              /\ nStarted' = nStarted + 1
              /\ gpc' = [gpc EXCEPT ![t] = "construct"]
              /\ UNCHANGED gres
    /\ UNCHANGED <<extVars, semantic_bot, lock, ready_event, waited, nBuilt, nFailed,
                   returned, sawFail, dbVars, sendVars>>

\* lines 59-71, mutated: the new object is bound to a local name (the global
\* declaration of line 32 is missing), so the handle is returned but not published.
ConstructOkLocal(t) ==
    /\ gpc[t] = "construct"
    /\ ready_event' = TRUE
    /\ nBuilt' = nBuilt + 1
    /\ gres' = [gres EXCEPT ![t] = Handle(nStarted)]
    /\ gpc' = [gpc EXCEPT ![t] = "finally"]
    /\ UNCHANGED <<extVars, semantic_bot, bot_loading, lock, waited, nStarted, nFailed, returned,
                   sawFail, dbVars, sendVars>>

\* lines 59-71: SemanticChatbot() returns a fresh object, which is published,
\* and the event is set.
ConstructOk(t) ==
    /\ gpc[t] = "construct"
    /\ semantic_bot' = nStarted
    /\ ready_event' = TRUE
    /\ nBuilt' = nBuilt + 1
    /\ gres' = [gres EXCEPT ![t] = Handle(nStarted)]
    /\ gpc' = [gpc EXCEPT ![t] = "finally"]
    /\ UNCHANGED <<extVars, bot_loading, lock, waited, nStarted, nFailed, returned, sawFail,
                   dbVars, sendVars>>

\* lines 73-85, mutated: the failure handler signals the waiters and does not
\* clear the event again.
ConstructFailSignals(t) ==
    /\ gpc[t] = "construct"
    /\ nFailed < MaxFail
    /\ bot_loading' = FALSE
    /\ ready_event' = TRUE
    /\ nFailed' = nFailed + 1
    /\ sawFail' = sawFail \cup {u \in Threads : u # t /\ Blocked(u)}
    /\ gres' = [gres EXCEPT ![t] = InitRaised]
    /\ gpc' = [gpc EXCEPT ![t] = "finally"]
    /\ UNCHANGED <<extVars, semantic_bot, lock, waited, nStarted, nBuilt, returned, dbVars, sendVars>>

\* lines 73-85: SemanticChatbot() raises; the handler resets the loading flag,
\* clears the event and raises RuntimeError.
ConstructFail(t) ==
    /\ gpc[t] = "construct"
    /\ nFailed < MaxFail
    /\ bot_loading' = FALSE
    /\ ready_event' = FALSE
    /\ nFailed' = nFailed + 1
    /\ sawFail' = sawFail \cup {u \in Threads : u # t /\ Blocked(u)}
    /\ gres' = [gres EXCEPT ![t] = InitRaised]
    /\ gpc' = [gpc EXCEPT ![t] = "finally"]
    /\ UNCHANGED <<extVars, semantic_bot, lock, waited, nStarted, nBuilt, returned, dbVars, sendVars>>

\* What leaving the with block delivers to the caller.
\* line 42 and line 71 return the handle, line 49 returns _semantic_bot after
\* the event wait, line 48 raises on timeout, lines 82-85 raise.
Outcome(t) ==
    IF gpc[t] = "wait_event"
      THEN IF ready_event THEN Handle(semantic_bot) ELSE TimeoutRaised
      ELSE gres[t]

\* lines 39-87, mutated: the lock is acquired and released by hand and the
\* release is skipped when the construction has raised.
ExitWithLeaks(t) ==
    /\ gpc[t] \in {"exit_with", "wait_event", "finally"}
    /\ gpc[t] = "wait_event" => (ready_event \/ waited[t] >= WaitTimeout)
    /\ bot_loading' = IF gpc[t] = "finally" THEN FALSE ELSE bot_loading
    /\ lock' = IF gpc[t] = "finally" /\ gres[t].kind = "RuntimeError" THEN lock ELSE Free
    /\ gres' = [gres EXCEPT ![t] = Outcome(t)]
    /\ returned' = IF Outcome(t).kind = "handle"
                     THEN returned \cup {Outcome(t).h} ELSE returned
    /\ gpc' = [gpc EXCEPT ![t] = "done"]
    /\ waited' = [waited EXCEPT ![t] = 0]
    /\ UNCHANGED <<extVars, semantic_bot, ready_event, nStarted, nBuilt, nFailed, sawFail,
                   dbVars, sendVars>>

\* Leaving the with block (lines 39-87): from the double-check return (42),
\* from the event wait (47-49: the event is set, or 60 seconds have passed),
\* and through the finally clause (86-87) after construction.
ExitWith(t) ==
    /\ gpc[t] \in {"exit_with", "wait_event", "finally"}
    /\ gpc[t] = "wait_event" => (ready_event \/ waited[t] >= WaitTimeout)
    /\ bot_loading' = IF gpc[t] = "finally" THEN FALSE ELSE bot_loading
    /\ lock' = Free
    /\ gres' = [gres EXCEPT ![t] = Outcome(t)]
    /\ returned' = IF Outcome(t).kind = "handle"
                     THEN returned \cup {Outcome(t).h} ELSE returned
    /\ gpc' = [gpc EXCEPT ![t] = "done"]
    /\ waited' = [waited EXCEPT ![t] = 0]
    /\ UNCHANGED <<extVars, semantic_bot, ready_event, nStarted, nBuilt, nFailed, sawFail,
                   dbVars, sendVars>>

\* A request thread calls get_semantic_bot() (line 232), here without the
\* exchange around the call.
Call(t) ==
    /\ gpc[t] \in {"idle", "done"}
    /\ gpc' = [gpc EXCEPT ![t] = "start"]
    /\ gres' = [gres EXCEPT ![t] = NoResult]
    /\ sawFail' = sawFail \ {t}
    /\ UNCHANGED <<extVars, botVars, waited, nStarted, nBuilt, nFailed, returned, dbVars, sendVars>>

\* Time passes for the threads that are blocked.
Tick ==
    /\ \E t \in Threads : Blocked(t) /\ waited[t] <= WaitTimeout
    /\ waited' = [t \in Threads |->
                    IF Blocked(t)
                      THEN Min(waited[t] + TickSeconds, WaitTimeout + TickSeconds)
                      ELSE waited[t]]
    /\ UNCHANGED <<extVars, botVars, gpc, gres, ghostVars, dbVars, sendVars>>

\* ------------------------------------------------------------ empty values
\* A value of the engine's payload is a record with one field, named after
\* its Python type: scalar, set (of scalars), list or dict.
Scalar(v) == [scalar |-> v]
Absent == Scalar("None")
IsSet(obj) == DOMAIN obj = {"set"}
IsList(obj) == DOMAIN obj = {"list"}
IsDict(obj) == DOMAIN obj = {"dict"}

NoRequest == [conv |-> 0, user |-> 0, body |-> [hasBody |-> FALSE, text |-> <<>>]]
NoChange == [set |-> FALSE, title |-> <<>>, updated_at |-> 0]
NoExc == [type |-> "none", msg |-> "", inner |-> FALSE]
NoAi == [kind |-> "none", intent |-> "none", data |-> "none", chart |-> "none",
         error |-> "none", jsonSafe |-> TRUE, entities |-> Absent]
NoResp == [status |-> 0, success |-> FALSE, data |-> "none", chart |-> "none",
           error |-> "none"]
NewConversation ==
    <<"N", "e", "w", " ", "C", "o", "n", "v", "e", "r", "s", "a", "t", "i", "o", "n">>

\* ------------------------------------------------------------ the database
ConvIds == {1, 3}               \* the conversations that exist
Owner == [c \in ConvIds |-> IF c = 1 THEN 1 ELSE 2]     \* Conversation.user_id
Whitespace == {" ", "\t", "\n"}
NoBody == [hasBody |-> FALSE, text |-> <<>>]            \* request.get_json() is None
Blank == [hasBody |-> TRUE, text |-> <<" ">>]
Padded == [hasBody |-> TRUE, text |-> <<" ", "h", "i", "\n">>]
\* The requests: conversation_id (2 does not exist), current_user.id (user 2
\* does not own conversation 1), and the JSON body.
Inputs ==
    {[conv |-> 1, user |-> 1, body |-> b] : b \in {NoBody, Blank, Padded}}
        \cup {[conv |-> 2, user |-> 1, body |-> Padded],
              [conv |-> 1, user |-> 2, body |-> Padded],
              [conv |-> 1, user |-> 2, body |-> Blank]}

\* Conversation.query.filter_by(id=conversation_id, user_id=current_user.id).first()
Lookup(c, u) == c \in ConvIds /\ Owner[c] = u

\* str.strip()
RECURSIVE LStrip(_)
LStrip(s) == IF s # <<>> /\ Head(s) \in Whitespace THEN LStrip(Tail(s)) ELSE s
RECURSIVE RStrip(_)
RStrip(s) ==
    IF s # <<>> /\ s[Len(s)] \in Whitespace THEN RStrip(SubSeq(s, 1, Len(s) - 1)) ELSE s
Strip(s) == RStrip(LStrip(s))

\* line 212, mutated: the content is not stripped.
ContentOfRaw(body) == body.text

\* line 212: data.get('content', '').strip()
ContentOf(body) == Strip(body.text)

\* line 334, mutated: the marker is appended from 50 characters on.
TitleFromEager(c) ==
    SubSeq(c, 1, Min(TitleLimit, Len(c)))
        \o (IF Len(c) >= TitleLimit THEN <<".", ".", ".">> ELSE <<>>)

\* line 334: user_message_content[:50] + ('...' if len(user_message_content) > 50 else '')
TitleFrom(c) ==
    SubSeq(c, 1, Min(TitleLimit, Len(c)))
        \o (IF Len(c) > TitleLimit THEN <<".", ".", ".">> ELSE <<>>)

UserRow(c) == [role |-> "user", text |-> "content", body |-> c]
AssistantRow(x) == [role |-> "assistant", text |-> x, body |-> <<>>]

\* The rows of a session as committed rows: each row gets an identity.
Committed(t, p) ==
    {[call |-> t, n |-> i, role |-> p[i].role, text |-> p[i].text, body |-> p[i].body] :
        i \in 1..Len(p)}

RowsOf(t) == {r \in rows : r.call = t}

\* The messages a conversation already has: the committed rows of call 0,
\* users and assistants in turn.
PriorRows(n) ==
    {[call |-> 0, n |-> i, role |-> IF i % 2 = 1 THEN "user" ELSE "assistant",
      text |-> "prior", body |-> <<>>] : i \in 1..n}

\* Message.conversation_id of a row: the earlier messages are in conversation
\* 1, a row of a call is in the conversation of the call's request.
ConvOfRow(r) == IF r.call = 0 THEN 1 ELSE req[r.call].conv

\* Message.created_at, the creation time: the earlier messages were created
\* in the order of their numbers, a row of a call when it was inserted.
CreatedAt(r) ==
    IF r.call = 0 THEN r.n
    ELSE IF r.role = "user" THEN created[r.call].user
    ELSE created[r.call].assistant

\* The creation time of the next row inserted: later than every row so far.
NextStamp ==
    LET used == {scenario.prior} \cup {created[u].user : u \in Requests}
                    \cup {created[u].assistant : u \in Requests}
    IN  1 + (CHOOSE m \in used : \A k \in used : k <= m)

\* lines 239-241: Message.query.filter_by(conversation_id=...) in the session
\* of call t sees the committed rows and the rows the session has flushed.
Visible(t) == {r \in rows \cup Committed(t, pending[t]) : ConvOfRow(r) = req[t].conv}

\* .order_by(Message.created_at.desc()).limit(n).all()
RECURSIVE Newest(_, _)
Newest(S, n) ==
    IF S = {} \/ n = 0 THEN <<>>
    ELSE LET m == CHOOSE r \in S : \A q \in S : CreatedAt(q) <= CreatedAt(r)
         IN  <<m>> \o Newest(S \ {m}, n - 1)

\* reversed(s)
Reverse(s) == [i \in 1..Len(s) |-> s[Len(s) + 1 - i]]

\* lines 239-248: conversation_history; each entry stands for the dict with
\* the role and the content of the row.
HistoryOf(t) ==
    LET recent_messages == Newest(Visible(t), HistoryLimit)
    IN  Reverse(SubSeq(recent_messages, 2, Len(recent_messages)))

\* bool(value) of the engine's entities: None and the empty collections are False.
Truthy(obj) ==
    /\ obj # Absent
    /\ IsSet(obj) => obj.set # {}
    /\ IsList(obj) => Len(obj.list) > 0
    /\ IsDict(obj) => DOMAIN obj.dict # {}

\* ------------------------------------------------------------- send_message
Status(code) == [NoResp EXCEPT !.status = code]

\* lines 203-215: the conversation lookup, the body, the content check.
Precheck(t) ==
    /\ spc[t] = "idle"
    /\ t \in scenario.clients
    /\ \E rq \in scenario.inputs :
         LET c == rq.conv
             u == rq.user
             b == rq.body
         IN
         /\ req' = [req EXCEPT ![t] = rq]
         /\ IF ~Lookup(c, u)
              THEN /\ resp' = [resp EXCEPT ![t] = Status(404)]
                   /\ spc' = [spc EXCEPT ![t] = "done"]
                   /\ UNCHANGED <<loaded, exc, content>>
              ELSE IF ~b.hasBody
              THEN \* request.get_json() is None: data.get raises AttributeError
                   /\ exc' = [exc EXCEPT ![t] = [type |-> "AttributeError",
                                                 msg |-> "no body", inner |-> FALSE]]
                   /\ loaded' = [loaded EXCEPT ![t] = conv[c]]
                   /\ spc' = [spc EXCEPT ![t] = "raised"]
                   /\ UNCHANGED <<resp, content>>
              ELSE IF ContentOf(b) = <<>>
              THEN /\ resp' = [resp EXCEPT ![t] = Status(400)]
                   /\ loaded' = [loaded EXCEPT ![t] = conv[c]]
                   /\ spc' = [spc EXCEPT ![t] = "done"]
                   /\ UNCHANGED <<exc, content>>
              ELSE /\ content' = [content EXCEPT ![t] = ContentOf(b)]
                   /\ loaded' = [loaded EXCEPT ![t] = conv[c]]
                   /\ spc' = [spc EXCEPT ![t] = "save_user"]
                   /\ UNCHANGED <<exc, resp>>
    /\ UNCHANGED <<extVars, botVars, callVars, ghostVars, dbVars, pending, convPending, ai, called>>

\* lines 219-226, mutated: the user message is committed instead of flushed.
SaveUserMessageCommits(t) ==
    /\ spc[t] = "save_user"
    /\ rows' = rows \cup Committed(t, <<UserRow(content[t])>>)
    /\ spc' = [spc EXCEPT ![t] = "get_bot"]
    /\ UNCHANGED <<extVars, botVars, callVars, ghostVars, conv, now, touched, req, content, loaded,
                   pending, convPending, exc, ai, resp, called>>

\* lines 219-226: the user message is added to the session and flushed.
SaveUserMessage(t) ==
    /\ spc[t] = "save_user"
    /\ pending' = [pending EXCEPT ![t] = <<UserRow(content[t])>>]
    /\ created' = IF scenario.historyParam
                    THEN [created EXCEPT ![t].user = NextStamp] ELSE created
    /\ spc' = [spc EXCEPT ![t] = "get_bot"]
    /\ UNCHANGED <<statusVars, cleanVars, scenario, history, current_user_id, seenUser,
                   entArg, botVars, callVars, ghostVars, dbVars, req, content, loaded,
                   convPending, exc, ai, resp, called>>

\* line 232: bot = get_semantic_bot() is called.
GetBot(t) ==
    /\ spc[t] = "get_bot"
    /\ gpc[t] = "idle"
    /\ gpc' = [gpc EXCEPT ![t] = "start"]
    /\ gres' = [gres EXCEPT ![t] = NoResult]
    /\ called' = [called EXCEPT ![t] = TRUE]
    /\ spc' = [spc EXCEPT ![t] = "in_bot"]
    /\ UNCHANGED <<extVars, botVars, waited, ghostVars, dbVars, req, content, loaded, pending,
                   convPending, exc, ai, resp>>

\* lines 232-236: get_semantic_bot() has returned the handle or raised.
AfterGetBot(t) ==
    /\ spc[t] = "in_bot"
    /\ gpc[t] = "done"
    /\ gpc' = [gpc EXCEPT ![t] = "idle"]
    /\ IF gres[t].kind = "handle"
         THEN /\ spc' = [spc EXCEPT ![t] = "process"]
              /\ UNCHANGED exc
         ELSE /\ exc' = [exc EXCEPT ![t] = [type |-> gres[t].kind, msg |-> gres[t].msg,
                                            inner |-> TRUE]]
              /\ spc' = [spc EXCEPT ![t] = "raised"]
    /\ UNCHANGED <<extVars, botVars, gres, waited, ghostVars, dbVars, req, content, loaded, pending,
                   convPending, ai, resp, called>>

\* What bot.process_message(**kwargs) can do (the engine is a collaborator):
\* return a result, whose data jsonify can or cannot serialize, or raise.
EngineRaises == {"TimeoutError", "RuntimeError", "ValueError"}
EngineResult(safe) ==
    [kind |-> "engine", intent |-> "query", data |-> "data", chart |-> "bar",
     error |-> "none", jsonSafe |-> safe, entities |-> Absent]

\* lines 238-267: the history, the keyword arguments and, for an engine whose
\* process_message declares no user_id, the attribute bot.current_user_id.
PrepareCall(t) ==
    /\ spc[t] = "process"
    /\ history' = IF scenario.historyParam
                    THEN [history EXCEPT ![t] = HistoryOf(t)] ELSE history
    /\ current_user_id' = IF scenario.userIdParam THEN current_user_id ELSE req[t].user
    /\ spc' = [spc EXCEPT ![t] = "invoke"]
    /\ UNCHANGED <<statusVars, cleanVars, scenario, created, seenUser, entArg, botVars,
                   callVars, ghostVars, dbVars, req, content, loaded, pending,
                   convPending, exc, ai, resp, called>>

\* lines 269-274: ai_response = bot.process_message(**kwargs); the engine
\* works for the user of its user_id argument or, without that parameter, of
\* its attribute current_user_id.
ProcessMessage(t) ==
    /\ spc[t] = "invoke"
    /\ seenUser' = [seenUser EXCEPT ![t] =
                       IF scenario.userIdParam THEN req[t].user ELSE current_user_id]
    /\ \/ \E safe \in BOOLEAN, ent \in scenario.entities :
            /\ ai' = [ai EXCEPT ![t] = [EngineResult(safe) EXCEPT !.entities = ent]]
            /\ spc' = [spc EXCEPT ![t] = "save_assistant"]
            /\ UNCHANGED exc
       \/ \E e \in EngineRaises :
            /\ exc' = [exc EXCEPT ![t] = [type |-> e, msg |-> "engine error",
                                          inner |-> TRUE]]
            /\ spc' = [spc EXCEPT ![t] = "raised"]
            /\ UNCHANGED ai
    /\ UNCHANGED <<statusVars, cleanVars, scenario, created, history, current_user_id,
                   entArg, botVars, callVars, ghostVars, dbVars, req, content, loaded,
                   pending, convPending, resp, called>>

\* lines 276-288: the assistant message with the engine's response is added;
\* set_entities is called with the engine's entities when they are truthy.
SaveAssistant(t) ==
    /\ spc[t] = "save_assistant"
    /\ entArg' = [entArg EXCEPT ![t] =
                     IF Truthy(ai[t].entities) THEN ai[t].entities ELSE Absent]
    /\ pending' = [pending EXCEPT ![t] = Append(@, AssistantRow("response"))]
    /\ spc' = [spc EXCEPT ![t] = "update_conv"]
    /\ UNCHANGED <<statusVars, cleanVars, scenario, created, history, current_user_id,
                   seenUser, botVars, callVars, ghostVars, dbVars, req, content, loaded,
                   convPending, exc, ai, resp, called>>

\* lines 302-308, mutated: the synthesized result carries no error marker.
TimeoutResultNoMarker ==
    [kind |-> "timeout", intent |-> "error", data |-> "None", chart |-> "None",
     error |-> "none", jsonSafe |-> TRUE, entities |-> Absent]

\* lines 302-308: the result synthesized for a TimeoutError.
TimeoutResult ==
    [kind |-> "timeout", intent |-> "error", data |-> "None", chart |-> "None",
     error |-> "timeout", jsonSafe |-> TRUE, entities |-> Absent]

\* lines 322-328: the result synthesized for a RuntimeError e; error is str(e).
RuntimeResult(e) ==
    [kind |-> "runtime", intent |-> "error", data |-> "None", chart |-> "None",
     error |-> e.msg, jsonSafe |-> TRUE, entities |-> Absent]

\* lines 290-308, mutated: the apology message is not added to the session.
HandleTimeoutNoRow(t) ==
    /\ spc[t] = "raised"
    /\ exc[t].inner /\ exc[t].type = "TimeoutError"
    /\ ai' = [ai EXCEPT ![t] = TimeoutResult]
    /\ spc' = [spc EXCEPT ![t] = "update_conv"]
    /\ UNCHANGED <<extVars, botVars, callVars, ghostVars, dbVars, req, content, loaded, pending,
                   convPending, exc, resp, called>>

\* lines 290-308: except TimeoutError.
HandleTimeout(t) ==
    /\ spc[t] = "raised"
    /\ exc[t].inner /\ exc[t].type = "TimeoutError"
    /\ pending' = [pending EXCEPT ![t] = Append(@, AssistantRow("apology: high load"))]
    /\ ai' = [ai EXCEPT ![t] = TimeoutResult]
    /\ spc' = [spc EXCEPT ![t] = "update_conv"]
    /\ UNCHANGED <<extVars, botVars, callVars, ghostVars, dbVars, req, content, loaded,
                   convPending, exc, resp, called>>

\* lines 310-328: except RuntimeError.
HandleRuntime(t) ==
    /\ spc[t] = "raised"
    /\ exc[t].inner /\ exc[t].type = "RuntimeError"
    /\ pending' = [pending EXCEPT ![t] = Append(@, AssistantRow("apology: initializing"))]
    /\ ai' = [ai EXCEPT ![t] = RuntimeResult(exc[t])]
    /\ spc' = [spc EXCEPT ![t] = "update_conv"]
    /\ UNCHANGED <<extVars, botVars, callVars, ghostVars, dbVars, req, content, loaded,
                   convPending, exc, resp, called>>

\* lines 330-334: updated_at and, for an untitled conversation, the title.
UpdateConversation(t) ==
    /\ spc[t] = "update_conv"
    /\ now' = now + 1
    /\ convPending' = [convPending EXCEPT ![t] =
          [set |-> TRUE,
           title |-> IF loaded[t].title = <<>> \/ loaded[t].title = NewConversation
                       THEN TitleFrom(content[t]) ELSE loaded[t].title,
           updated_at |-> now + 1]]
    /\ spc' = [spc EXCEPT ![t] = "commit"]
    /\ UNCHANGED <<extVars, botVars, callVars, ghostVars, rows, conv, touched, req, content, loaded,
                   pending, exc, ai, resp, called>>

\* line 337: db.session.commit() succeeds: the session's rows and the
\* conversation's changed attributes become the committed state.
Commit(t) ==
    /\ spc[t] = "commit"
    /\ rows' = rows \cup Committed(t, pending[t])
    /\ conv' = [conv EXCEPT ![req[t].conv] =
                    [title |-> IF convPending[t].title # loaded[t].title
                                 THEN convPending[t].title ELSE @.title,
                     updated_at |-> convPending[t].updated_at]]
    /\ touched' = [touched EXCEPT ![t] = convPending[t].updated_at]
    /\ created' = IF scenario.historyParam
                    THEN [created EXCEPT ![t].assistant = NextStamp] ELSE created
    /\ pending' = [pending EXCEPT ![t] = <<>>]
    /\ convPending' = [convPending EXCEPT ![t] = NoChange]
    /\ spc' = [spc EXCEPT ![t] = "respond"]
    /\ UNCHANGED <<statusVars, cleanVars, scenario, history, current_user_id, seenUser,
                   entArg, botVars, callVars, ghostVars, now, req, content, loaded, exc,
                   ai, resp, called>>

\* line 337: db.session.commit() raises.
CommitFails(t) ==
    /\ spc[t] = "commit"
    /\ exc' = [exc EXCEPT ![t] = [type |-> "OperationalError", msg |-> "commit failed",
                                  inner |-> FALSE]]
    /\ spc' = [spc EXCEPT ![t] = "raised"]
    /\ UNCHANGED <<extVars, botVars, callVars, ghostVars, dbVars, req, content, loaded, pending,
                   convPending, ai, resp, called>>

\* lines 339-356: the understanding is cleaned and the response is built;
\* jsonify raises TypeError on data it cannot serialize.
Respond(t) ==
    /\ spc[t] = "respond"
    /\ IF ai[t].jsonSafe
         THEN /\ resp' = [resp EXCEPT ![t] =
                    [status |-> 200, success |-> TRUE, data |-> ai[t].data,
                     chart |-> ai[t].chart, error |-> ai[t].error]]
              /\ spc' = [spc EXCEPT ![t] = "done"]
              /\ UNCHANGED exc
         ELSE /\ exc' = [exc EXCEPT ![t] = [type |-> "TypeError",
                                            msg |-> "not JSON serializable",
                                            inner |-> FALSE]]
              /\ spc' = [spc EXCEPT ![t] = "raised"]
              /\ UNCHANGED resp
    /\ UNCHANGED <<extVars, botVars, callVars, ghostVars, dbVars, req, content, loaded, pending,
                   convPending, ai, called>>

\* lines 358-367: except Exception: rollback and the 500 response.
HandleUnexpected(t) ==
    /\ spc[t] = "raised"
    /\ ~(exc[t].inner /\ exc[t].type \in {"TimeoutError", "RuntimeError"})
    /\ pending' = [pending EXCEPT ![t] = <<>>]
    /\ convPending' = [convPending EXCEPT ![t] = NoChange]
    /\ resp' = [resp EXCEPT ![t] = [status |-> 500, success |-> FALSE, data |-> "none",
                                    chart |-> "none", error |-> exc[t].msg]]
    /\ spc' = [spc EXCEPT ![t] = "done"]
    /\ UNCHANGED <<extVars, botVars, callVars, ghostVars, dbVars, req, content, loaded, exc, ai,
                   called>>

\* ------------------------------------------------- initialize_bot_background
\* lines 95-98 and 102-103: thread.start(): the prewarm thread begins _init and
\* calls get_semantic_bot().
PrewarmStart ==
    /\ startup = "starting"
    /\ gpc[Prewarm] = "idle"
    /\ startup' = "spawned"
    /\ gpc' = [gpc EXCEPT ![Prewarm] = "start"]
    /\ UNCHANGED <<statusResp, uncaught, engineVars, cleanVars, botVars, gres, waited,
                   ghostVars, dbVars, sendVars>>

\* line 104: return thread; the caller does not join it.
StartupReturns ==
    /\ startup = "spawned"
    /\ startup' = "returned"
    /\ UNCHANGED <<statusResp, uncaught, engineVars, cleanVars, botVars, callVars,
                   ghostVars, dbVars, sendVars>>

\* lines 98-100, mutated: the handler prints and raises again.
PrewarmEndReraises ==
    /\ gpc[Prewarm] = "done"
    /\ gpc' = [gpc EXCEPT ![Prewarm] = "ended"]
    /\ uncaught' = (uncaught \/ gres[Prewarm].kind # "handle")
    /\ UNCHANGED <<statusResp, startup, engineVars, cleanVars, botVars, gres, waited,
                   ghostVars, dbVars, sendVars>>

\* lines 98-100: the call has returned, or raised an Exception, which is
\* caught and printed; the thread ends.
PrewarmEnd ==
    /\ gpc[Prewarm] = "done"
    /\ gpc' = [gpc EXCEPT ![Prewarm] = "ended"]
    /\ uncaught' = (uncaught \/ gres[Prewarm].kind \notin {"handle", "RuntimeError", "TimeoutError"})
    /\ UNCHANGED <<statusResp, startup, engineVars, cleanVars, botVars, gres, waited,
                   ghostVars, dbVars, sendVars>>

\* ------------------------------------------------------------ chatbot_status
\* lines 456-489, mutated: the handler obtains the bot from get_semantic_bot(),
\* which constructs it when there is none.
ChatbotStatusConstructs ==
    /\ semantic_bot' = IF semantic_bot = None THEN nStarted + 1 ELSE semantic_bot
    /\ nStarted' = IF semantic_bot = None THEN nStarted + 1 ELSE nStarted
    /\ nBuilt' = IF semantic_bot = None THEN nBuilt + 1 ELSE nBuilt
    /\ ready_event' = TRUE
    /\ statusResp' = [code |-> 200, initialized |-> TRUE, loading |-> FALSE]
    /\ UNCHANGED <<startup, uncaught, engineVars, cleanVars, bot_loading, lock, callVars,
                   nFailed, returned, sawFail, dbVars, sendVars>>

\* lines 456-489: without a handle the report is initialized False with the
\* loading flag; with a handle it is initialized True, or the 500 response
\* when reading the bot's context, memory or cache raises.
ChatbotStatus ==
    /\ IF semantic_bot = None
         THEN statusResp' = [code |-> 200, initialized |-> FALSE, loading |-> bot_loading]
         ELSE \/ statusResp' = [code |-> 200, initialized |-> TRUE, loading |-> FALSE]
              \/ statusResp' = [code |-> 500, initialized |-> FALSE, loading |-> FALSE]
    /\ UNCHANGED <<startup, uncaught, engineVars, cleanVars, botVars, callVars,
                   ghostVars, dbVars, sendVars>>

\* ------------------------------------------------------------- the scenarios
\* chatbot_status() has not answered yet.
NoStatus == [code |-> 0, initialized |-> FALSE, loading |-> FALSE]

\* created_at of the user message and of the assistant message; 0: not inserted.
NotCreated == [user |-> 0, assistant |-> 0]

\* The run of the first specifications: a request for every request thread,
\* drawn from Inputs, an engine whose
\* process_message declares user_id but not conversation_history and returns
\* no entities, a new conversation without earlier messages.
Plain == [inputs |-> Inputs, userIdParam |-> TRUE, historyParam |-> FALSE,
          entities |-> {Absent}, prior |-> 0, title |-> NewConversation,
          clients |-> Requests]

\* ------------------------------------------------------------ _clean_for_json
\* The values _clean_for_json is given: scalars, sets of scalars (the elements
\* of a set are hashable), and lists and dicts nested two levels deep (the outermost
\* list has at most one item).
Scalars == {"rent", "food"}
Keys == {"entities", "intent"}
Atoms == {Scalar(s) : s \in Scalars}
Sets == {[set |-> S] : S \in SUBSET Atoms}
ListsOf(V, n) == {[list |-> l] : l \in UNION {[1..k -> V] : k \in 0..n}}
DictsOf(V) == {[dict |-> d] : d \in UNION {[K -> V] : K \in SUBSET Keys}}
Values0 == Atoms \cup Sets
Values1 == Values0 \cup ListsOf(Values0, MaxLen) \cup DictsOf(Values0)
Values == Values1 \cup ListsOf(Values1, 1) \cup DictsOf(Values1)

\* The orders in which iterating a set can yield the scalars.
Orders == {o \in [1..Cardinality(Atoms) -> Atoms] : \A i, j \in DOMAIN o : o[i] = o[j] => i = j}

\* lines 370-379, mutated: the dict comprehension filters out the values
\* whose bool() is False, the empty collections.
RECURSIVE CleanDropsEmpty(_, _)
CleanDropsEmpty(obj, ord) ==
    LET Falsy(x) == \/ IsSet(x) /\ x.set = {}
                    \/ IsList(x) /\ Len(x.list) = 0
                    \/ IsDict(x) /\ DOMAIN x.dict = {}
    IN  IF IsSet(obj)
          THEN [list |-> SelectSeq(ord, LAMBDA e : e \in obj.set)]
        ELSE IF IsDict(obj)
          THEN [dict |-> [k \in {j \in DOMAIN obj.dict : ~Falsy(obj.dict[j])} |->
                            CleanDropsEmpty(obj.dict[k], ord)]]
        ELSE IF IsList(obj)
          THEN [list |-> [i \in 1..Len(obj.list) |-> CleanDropsEmpty(obj.list[i], ord)]]
        ELSE obj

\* lines 370-379, mutated: a dict is returned as it is, without the recursion.
RECURSIVE CleanShallow(_, _)
CleanShallow(obj, ord) ==
    IF IsSet(obj)
      THEN [list |-> SelectSeq(ord, LAMBDA e : e \in obj.set)]
    ELSE IF IsDict(obj)
      THEN obj
    ELSE IF IsList(obj)
      THEN [list |-> [i \in 1..Len(obj.list) |-> CleanShallow(obj.list[i], ord)]]
    ELSE obj

\* lines 370-379: _clean_for_json(obj); list(obj) of a set yields its elements
\* in the iteration order ord.
RECURSIVE Clean(_, _)
Clean(obj, ord) ==
    IF IsSet(obj)
      THEN [list |-> SelectSeq(ord, LAMBDA e : e \in obj.set)]
    ELSE IF IsDict(obj)
      THEN [dict |-> [k \in DOMAIN obj.dict |-> Clean(obj.dict[k], ord)]]
    ELSE IF IsList(obj)
      THEN [list |-> [i \in 1..Len(obj.list) |-> Clean(obj.list[i], ord)]]
    ELSE obj

\* _clean_for_json(cx)
CleanOnce ==
    /\ cx # Absent
    /\ c1 = Absent
    /\ c1' = Clean(cx, order)
    /\ UNCHANGED <<cx, order, c2, statusVars, engineVars, botVars, callVars, ghostVars,
                   dbVars, sendVars>>

\* _clean_for_json(_clean_for_json(cx))
CleanTwice ==
    /\ c1 # Absent
    /\ c2 = Absent
    /\ c2' = Clean(c1, order)
    /\ UNCHANGED <<cx, order, c1, statusVars, engineVars, botVars, callVars, ghostVars,
                   dbVars, sendVars>>

\* ------------------------------------------------------------- initial state
\* lines 22-25: no handle, nobody loading, the event clear, the lock free.
ColdStart ==
    /\ semantic_bot = None
    /\ bot_loading = FALSE
    /\ lock = Free
    /\ ready_event = FALSE
    /\ gpc = [t \in Threads |-> "idle"]
    /\ gres = [t \in Threads |-> NoResult]
    /\ waited = [t \in Threads |-> 0]
    /\ nStarted = 0
    /\ nBuilt = 0
    /\ nFailed = 0
    /\ returned = {}
    /\ sawFail = {}

\* No request has arrived, nothing has been asked of the startup or the status.
Idle ==
    /\ now = 0
    /\ touched = [t \in Requests |-> 0]
    /\ spc = [t \in Requests |-> "idle"]
    /\ req = [t \in Requests |-> NoRequest]
    /\ content = [t \in Requests |-> <<>>]
    /\ loaded = [t \in Requests |-> [title |-> <<>>, updated_at |-> 0]]
    /\ pending = [t \in Requests |-> <<>>]
    /\ convPending = [t \in Requests |-> NoChange]
    /\ exc = [t \in Requests |-> NoExc]
    /\ ai = [t \in Requests |-> NoAi]
    /\ resp = [t \in Requests |-> NoResp]
    /\ called = [t \in Requests |-> FALSE]
    /\ statusResp = NoStatus
    /\ startup = "starting"
    /\ uncaught = FALSE
    /\ created = [t \in Requests |-> NotCreated]
    /\ history = [t \in Requests |-> <<>>]
    /\ current_user_id = 0
    /\ seenUser = [t \in Requests |-> 0]
    /\ entArg = [t \in Requests |-> Absent]

\* _clean_for_json has not been called.
NothingCleaned ==
    /\ cx = Absent
    /\ order = <<>>
    /\ c1 = Absent
    /\ c2 = Absent

Init ==
    /\ ColdStart
    /\ Idle
    /\ NothingCleaned
    /\ rows = {}
    /\ conv = [c \in ConvIds |-> [title |-> NewConversation, updated_at |-> 0]]
    /\ scenario = Plain

\* ------------------------------------------- the runs with the engine built
\* lines 60-66 have run once: the handle is published and the event is set.
WarmStart ==
    /\ semantic_bot = 1
    /\ bot_loading = FALSE
    /\ lock = Free
    /\ ready_event = TRUE
    /\ gpc = [t \in Threads |-> "idle"]
    /\ gres = [t \in Threads |-> NoResult]
    /\ waited = [t \in Threads |-> 0]
    /\ nStarted = 1
    /\ nBuilt = 1
    /\ nFailed = 0
    /\ returned = {}
    /\ sawFail = {}

\* A message content of n characters, the digits in turn.
Text(n) == [i \in 1..n |-> <<"0", "1", "2", "3", "4", "5", "6", "7", "8", "9">>[(i % 10) + 1]]
Body(c) == [hasBody |-> TRUE, text |-> <<" ">> \o c \o <<"\n">>]
Custom == <<"B", "u", "d", "g", "e", "t">>

\* The request threads of a run in which two requests arrive.
TwoClients == {1, 2}

\* Requests of user 1 in conversation 1 whose contents are short, exactly at
\* the title limit, one beyond it, the longest, and the words of the default
\* title; the conversation has no title, the default title or a custom one.
TitleScenarios ==
    {[inputs |-> {[conv |-> 1, user |-> 1, body |-> Body(c)] :
                     c \in {Text(2), Text(TitleLimit), Text(TitleLimit + 1),
                            Text(MaxContent), NewConversation}},
      userIdParam |-> TRUE, historyParam |-> FALSE, entities |-> {Absent},
      prior |-> 0, title |-> ti, clients |-> TwoClients] : ti \in {<<>>, NewConversation, Custom}}

\* A conversation with n earlier messages and an engine that takes the history.
History(n) ==
    [inputs |-> {[conv |-> 1, user |-> 1, body |-> Padded]},
     userIdParam |-> TRUE, historyParam |-> TRUE, entities |-> {Absent},
     prior |-> n, title |-> Custom, clients |-> TwoClients]

\* Two users, each in a conversation of their own, and an engine whose
\* process_message declares neither user_id nor conversation_history.
TwoUsers ==
    [inputs |-> {[conv |-> 1, user |-> 1, body |-> Padded],
                 [conv |-> 3, user |-> 2, body |-> Padded]},
     userIdParam |-> FALSE, historyParam |-> FALSE, entities |-> {Absent},
     prior |-> 0, title |-> Custom, clients |-> TwoClients]

\* An engine whose understanding has no entities, an empty set, the set
\* {"rent", "food"}, or a list.
SetEntities ==
    [inputs |-> {[conv |-> 1, user |-> 1, body |-> Padded]},
     userIdParam |-> TRUE, historyParam |-> FALSE,
     entities |-> {Absent, [set |-> {}], [set |-> Atoms], [list |-> <<Scalar("rent")>>]},
     prior |-> 0, title |-> Custom, clients |-> TwoClients]

EngineScenarios == {History(n) : n \in 0..MaxPrior} \cup {TwoUsers, SetEntities}

\* The state in which the requests of one of the scenarios S arrive.
Warm(S) ==
    /\ WarmStart
    /\ Idle
    /\ NothingCleaned
    /\ scenario \in S
    /\ rows = PriorRows(scenario.prior)
    /\ conv = [c \in ConvIds |-> [title |-> scenario.title, updated_at |-> 0]]

\* ------------------------------------- the message exchanges of the requests
Next ==
    \/ \E t \in Requests :
         \/ FastPath(t)
         \/ AcquireLock(t)
         \/ CheckLocked(t)
         \/ ConstructOk(t)
         \/ ConstructFail(t)
         \/ ExitWith(t)
    \/ \E t \in Requests :
         \/ Precheck(t)
         \/ SaveUserMessage(t)
         \/ GetBot(t)
         \/ AfterGetBot(t)
         \/ PrepareCall(t)
         \/ ProcessMessage(t)
         \/ SaveAssistant(t)
         \/ HandleTimeout(t)
         \/ HandleRuntime(t)
         \/ UpdateConversation(t)
         \/ Commit(t)
         \/ CommitFails(t)
         \/ Respond(t)
         \/ HandleUnexpected(t)

Spec == Init /\ [][Next]_vars

\* The message exchanges when the engine is built already: every call of
\* get_semantic_bot takes the fast path.
NextWarm ==
    \/ \E t \in Requests :
         \/ FastPath(t)
    \/ \E t \in Requests :
         \/ Precheck(t)
         \/ SaveUserMessage(t)
         \/ GetBot(t)
         \/ AfterGetBot(t)
         \/ PrepareCall(t)
         \/ ProcessMessage(t)
         \/ SaveAssistant(t)
         \/ HandleTimeout(t)
         \/ HandleRuntime(t)
         \/ UpdateConversation(t)
         \/ Commit(t)
         \/ CommitFails(t)
         \/ Respond(t)
         \/ HandleUnexpected(t)

InitTitle == Warm(TitleScenarios)
SpecTitle == InitTitle /\ [][NextWarm]_vars

InitEngine == Warm(EngineScenarios)
SpecEngine == InitEngine /\ [][NextWarm]_vars

\* ------------------------------------------ the singleton alone, with a clock
NextBot ==
    \/ PrewarmStart
    \/ PrewarmEnd
    \/ \E t \in Requests : Call(t)
    \/ \E t \in Threads :
         \/ FastPath(t)
         \/ AcquireLock(t)
         \/ CheckLocked(t)
         \/ ConstructOk(t)
         \/ ConstructFail(t)
         \/ ExitWith(t)
    \/ Tick

SpecBot == Init /\ [][NextBot]_vars

\* The singleton under fair scheduling: a thread that can take a step of
\* get_semantic_bot takes it, a thread waiting for the lock gets it if the
\* lock is free again and again, and SemanticChatbot() returns or raises.
Fairness ==
    \A t \in Threads :
        /\ WF_vars(FastPath(t))
        /\ SF_vars(AcquireLock(t))
        /\ WF_vars(CheckLocked(t))
        /\ WF_vars(ConstructOk(t) \/ ConstructFail(t))
        /\ WF_vars(ExitWith(t))

\* The calls of get_semantic_bot by the prewarm thread and the request
\* threads, without the clock.
NextLive ==
    \/ PrewarmStart
    \/ PrewarmEnd
    \/ \E t \in Requests : Call(t)
    \/ \E t \in Threads :
         \/ FastPath(t)
         \/ AcquireLock(t)
         \/ CheckLocked(t)
         \/ ConstructOk(t)
         \/ ConstructFail(t)
         \/ ExitWith(t)

SpecLive == Init /\ [][NextLive]_vars /\ Fairness

\* The startup prewarm with its caller, the requests' calls of get_semantic_bot
\* and the status endpoint, without the clock.
NextStatus ==
    \/ PrewarmStart
    \/ StartupReturns
    \/ PrewarmEnd
    \/ ChatbotStatus
    \/ \E t \in Requests : Call(t)
    \/ \E t \in Threads :
         \/ FastPath(t)
         \/ AcquireLock(t)
         \/ CheckLocked(t)
         \/ ConstructOk(t)
         \/ ConstructFail(t)
         \/ ExitWith(t)

SpecStatus == Init /\ [][NextStatus]_vars

\* ---------------------------------------------- _clean_for_json on its inputs
InitClean ==
    /\ ColdStart
    /\ Idle
    /\ rows = {}
    /\ conv = [c \in ConvIds |-> [title |-> NewConversation, updated_at |-> 0]]
    /\ scenario = Plain
    /\ cx \in Values
    /\ order \in Orders
    /\ c1 = Absent
    /\ c2 = Absent

NextClean ==
    \/ CleanOnce
    \/ CleanTwice

SpecClean == InitClean /\ [][NextClean]_vars

\* ------------------------------------------------------------------ claims

\* C1 (as stated): SemanticChatbot() executes at most once, whatever the
\* sequence and interleaving of get_semantic_bot() calls.
C1_AtMostOneExecution == nStarted <= 1

\* C1 (amended): SemanticChatbot() returns at most once, no two executions
\* overlap, and an execution begins only when every earlier one has raised.
C1_AtMostOneSuccess ==
    /\ nBuilt <= 1
    /\ Cardinality({t \in Threads : gpc[t] = "construct"}) <= 1
    /\ nStarted <= nFailed + 1

\* A construction that raised was followed by one that returned.
C1_Witness == nFailed >= 1 /\ nBuilt = 1 /\ nStarted = nFailed + 1

\* C2: every get_semantic_bot() call that returns normally returns a non-null
\* handle, and all such calls return the same handle, the published one.
C2_SameNonNullHandle ==
    /\ None \notin returned
    /\ Cardinality(returned) <= 1
    /\ \A t \in Threads : gres[t].kind = "handle" => gres[t].h = semantic_bot

\* Two threads have returned, one by constructing and one without.
C2_Witness ==
    \E t, u \in Threads :
        /\ t # u
        /\ gpc[t] = "done" /\ gres[t].kind = "handle"
        /\ gpc[u] = "done" /\ gres[u].kind = "handle"
        /\ nBuilt = 1

\* C3: a call that arrives while another call constructs the engine is never
\* blocked for more than the 60 seconds of the wait.
C3_BoundedWait == \A t \in Threads : waited[t] <= WaitTimeout

\* C4: a call that was waiting when the construction in progress failed is not
\* blocked beyond the 60 seconds and ends with RuntimeError or TimeoutError.
C4_WaiterAfterFailure ==
    \A t \in sawFail :
        /\ waited[t] <= WaitTimeout
        /\ gpc[t] = "done" => gres[t].kind \in {"RuntimeError", "TimeoutError"}

\* C5: when SemanticChatbot() raises, the call ends with RuntimeError and leaves
\* _semantic_bot None, _bot_loading False, the event clear and the lock free;
\* and a call that then enters the critical section with no handle published
\* starts a construction (it neither returns a handle nor waits).
C5_FailureResets ==
    [][\A t \in Threads :
         /\ (gpc[t] = "finally" /\ gres[t].kind = "RuntimeError" /\ gpc'[t] = "done")
               => /\ gres'[t] = InitRaised
                  /\ semantic_bot' = None
                  /\ bot_loading' = FALSE
                  /\ ready_event' = FALSE
                  /\ lock' = Free
         /\ (nFailed > 0 /\ semantic_bot = None /\ gpc[t] = "locked" /\ gpc'[t] # "locked")
               => gpc'[t] = "construct"]_vars

\* A call has failed with RuntimeError and another thread is constructing again.
C5_Witness ==
    \E t, u \in Threads :
        /\ t # u
        /\ gpc[t] = "done" /\ gres[t].kind = "RuntimeError"
        /\ gpc[u] = "construct"

\* Exactly the two rows of one exchange: the user's message and a reply.
Pair(t, reply) ==
    {[call |-> t, n |-> 1, role |-> "user", text |-> "content", body |-> content[t]],
     [call |-> t, n |-> 2, role |-> "assistant", text |-> reply, body |-> <<>>]}

\* C6: the committed rows of one send_message call are none, or exactly one
\* user row and one assistant row, on every path.
C6_PairedRows ==
    \A t \in Requests :
        \/ RowsOf(t) = {}
        \/ /\ Cardinality(RowsOf(t)) = 2
           /\ Cardinality({r \in RowsOf(t) : r.role = "user"}) = 1
           /\ Cardinality({r \in RowsOf(t) : r.role = "assistant"}) = 1

\* One exchange has committed its pair and another, which reached the engine,
\* has ended in the rollback with nothing committed.
C6_Witness ==
    \E t, u \in Requests :
        /\ spc[t] = "done" /\ Cardinality(RowsOf(t)) = 2
        /\ spc[u] = "done" /\ called[u] /\ resp[u].status = 500 /\ RowsOf(u) = {}

\* The exchange of t met a TimeoutError in the guarded block, and nothing was
\* raised after it.
TimedOut(t) == exc[t].inner /\ exc[t].type = "TimeoutError"

\* C7: an exchange in which acquisition or processing raises TimeoutError
\* commits exactly one user row and one assistant row, the canned apology,
\* with an updated_at later than the one it loaded, and answers without
\* re-raising.
C7_TimeoutPersistsPair ==
    \A t \in Requests :
        TimedOut(t) =>
            /\ spc[t] \in {"respond", "done"} =>
                  /\ RowsOf(t) = Pair(t, "apology: high load")
                  /\ touched[t] > loaded[t].updated_at
            /\ spc[t] = "done" => resp[t].status = 200

\* An exchange that timed out has ended.
C7_Witness ==
    \E t \in Requests :
        /\ TimedOut(t) /\ spc[t] = "done"
        /\ conv[req[t].conv].updated_at = touched[t]

\* C8: a TimeoutError or an initialization failure ends in a successful
\* response whose synthesized result has intent "error", no data, no chart,
\* and the marker "timeout", respectively the error's message.
C8_ErrorsBecomeSuccess ==
    \A t \in Requests :
        (spc[t] = "done" /\ exc[t].inner /\ exc[t].type \in {"TimeoutError", "RuntimeError"})
            => /\ ai[t].intent = "error"
               /\ resp[t] = [status |-> 200, success |-> TRUE, data |-> "None",
                             chart |-> "None",
                             error |-> IF exc[t].type = "TimeoutError"
                                         THEN "timeout" ELSE exc[t].msg]

\* One exchange has ended after a timeout and one after a failed construction.
C8_Witness ==
    \E t, u \in Requests :
        /\ spc[t] = "done" /\ TimedOut(t) /\ resp[t].error = "timeout"
        /\ spc[u] = "done" /\ exc[u].inner /\ exc[u].type = "RuntimeError"
        /\ resp[u].error = InitRaised.msg

\* The exchange of t failed, and not by an engine timeout nor by a failed
\* construction of the engine.
FailedOtherwise(t) ==
    /\ exc[t].type # "none"
    /\ ~TimedOut(t)
    /\ ~(exc[t].inner /\ exc[t].type = "RuntimeError" /\ exc[t].msg = InitRaised.msg)

\* C9: any other failure of send_message rolls everything back: no row of the
\* call is committed, the conversation is not updated, the response is a 500.
C9_OtherFailuresRollBack ==
    \A t \in Requests :
        (spc[t] = "done" /\ FailedOtherwise(t))
            => /\ RowsOf(t) = {}
               /\ touched[t] = 0
               /\ resp[t].status = 500

\* C10: a call rejected at its precondition checks (404 for a missing or
\* foreign conversation, 400 for content that is empty after trimming)
\* persists no row, leaves the conversation unchanged and does not call
\* get_semantic_bot().
C10_RejectedLeavesNoTrace ==
    \A t \in Requests :
        /\ (spc[t] # "idle" /\ ~Lookup(req[t].conv, req[t].user))
              => spc[t] = "done" /\ resp[t].status = 404
        /\ (spc[t] # "idle" /\ Lookup(req[t].conv, req[t].user)
                /\ req[t].body.hasBody /\ Strip(req[t].body.text) = <<>>)
              => spc[t] = "done" /\ resp[t].status = 400
        /\ (spc[t] = "done" /\ resp[t].status \in {400, 404})
              => /\ RowsOf(t) = {}
                 /\ pending[t] = <<>>
                 /\ convPending[t] = NoChange
                 /\ touched[t] = 0
                 /\ ~called[t]
                 /\ gpc[t] = "idle"

\* One request was rejected with 404 and one with 400, while the conversation
\* has been updated by nobody.
C10_Witness ==
    \E t, u \in Requests :
        /\ spc[t] = "done" /\ resp[t].status = 404
        /\ spc[u] = "done" /\ resp[u].status = 400
        /\ rows = {}

\* C17: once a handle is published it never reverts or changes, and a call
\* that starts after that returns it in its next step, without the lock
\* (whoever holds it) and without changing the singleton's state.
C17_PublishedHandleIsStable ==
    [][/\ semantic_bot # None => semantic_bot' = semantic_bot
       /\ \A t \in Threads :
            (gpc[t] = "start" /\ semantic_bot # None /\ gpc'[t] # "start")
                => /\ gpc'[t] = "done"
                   /\ gres'[t] = Handle(semantic_bot)
                   /\ UNCHANGED botVars]_vars

\* A call has returned the handle while the constructing thread still holds
\* the lock.
C17_Witness ==
    \E t, u \in Threads :
        /\ t # u
        /\ lock = u /\ gpc[u] = "finally" /\ semantic_bot # None
        /\ gpc[t] = "done" /\ gres[t] = Handle(semantic_bot)

\* C20: _bot_loading is True only while the constructing thread holds the
\* lock; a thread at the `if _bot_loading` check sees False; no thread is
\* ever in the event wait.
C20_LoadingOnlyUnderLock ==
    /\ bot_loading => \E t \in Threads : lock = t /\ gpc[t] \in {"construct", "finally"}
    /\ \A t \in Threads : gpc[t] = "locked" => ~bot_loading
    /\ \A t \in Threads : gpc[t] # "wait_event"

\* A caller that arrived during a construction is blocked on the lock.
C20_Witness ==
    \E t, u \in Threads :
        /\ gpc[t] = "construct" /\ bot_loading /\ lock = t
        /\ gpc[u] = "acquire" /\ waited[u] > 0

\* C15: chatbot_status() never triggers construction and leaves the singleton
\* state unchanged; it reports initialized False with the current loading
\* flag when no handle is published, and initialized True when one is.
C15_StatusReadsOnly ==
    [][statusResp' # statusResp
          => /\ UNCHANGED <<botVars, callVars, nStarted, nBuilt, nFailed>>
             /\ semantic_bot = None
                   => statusResp' = [code |-> 200, initialized |-> FALSE,
                                     loading |-> bot_loading]
             /\ (semantic_bot # None /\ statusResp'.code = 200)
                   => statusResp'.initialized /\ ~statusResp'.loading]_vars

\* The status reports the handle that was published after an earlier
\* construction had failed.
C15_Witness ==
    /\ statusResp = [code |-> 200, initialized |-> TRUE, loading |-> FALSE]
    /\ nFailed >= 1
    /\ nBuilt = 1

\* The singleton is as at the start and nobody is inside get_semantic_bot's
\* critical section.
Uninitialized ==
    /\ semantic_bot = None
    /\ bot_loading = FALSE
    /\ ready_event = FALSE
    /\ lock = Free

\* C16: initialize_bot_background() returns without waiting for the
\* construction, and a construction failure in the prewarm thread is not
\* propagated: the thread ends, nothing escapes it, and the singleton is left
\* uninitialized for a later call to retry.
C16_PrewarmFailureContained ==
    /\ startup = "spawned" => ENABLED StartupReturns
    /\ ~uncaught
    /\ (gpc[Prewarm] = "ended" /\ gres[Prewarm].kind = "RuntimeError" /\ nBuilt = 0
          /\ \A t \in Requests : gpc[t] \in {"idle", "start", "acquire", "done"})
          => Uninitialized

\* The caller has returned, the prewarm thread has ended after a failed
\* construction, and a request thread is constructing again.
C16_Witness ==
    /\ startup = "returned"
    /\ gpc[Prewarm] = "ended" /\ gres[Prewarm].kind = "RuntimeError"
    /\ \E t \in Requests : gpc[t] = "construct"

\* The value contains a set at some depth.
RECURSIVE HasSet(_)
HasSet(x) ==
    \/ IsSet(x)
    \/ IsList(x) /\ \E i \in 1..Len(x.list) : HasSet(x.list[i])
    \/ IsDict(x) /\ \E k \in DOMAIN x.dict : HasSet(x.dict[k])

\* C13: _clean_for_json is idempotent, and it is the identity on every input
\* that contains no set.
C13_CleanIdempotent ==
    /\ (c1 # Absent /\ ~HasSet(cx)) => c1 = cx
    /\ c2 # Absent => c2 = c1

\* A dict with a set inside was cleaned twice; the first pass changed it.
C13_Witness ==
    /\ c2 # Absent
    /\ IsDict(cx)
    /\ HasSet(cx)
    /\ c1 # cx

\* y is x with every set replaced by a list of the same elements, same keys
\* in every dict, same length and order in every list, same scalars.
RECURSIVE SameButSets(_, _)
SameButSets(x, y) ==
    IF IsSet(x)
      THEN /\ IsList(y)
           /\ Len(y.list) = Cardinality(x.set)
           /\ {y.list[i] : i \in 1..Len(y.list)} = x.set
    ELSE IF IsList(x)
      THEN /\ IsList(y)
           /\ Len(y.list) = Len(x.list)
           /\ \A i \in 1..Len(x.list) : SameButSets(x.list[i], y.list[i])
    ELSE IF IsDict(x)
      THEN /\ IsDict(y)
           /\ DOMAIN y.dict = DOMAIN x.dict
           /\ \A k \in DOMAIN x.dict : SameButSets(x.dict[k], y.dict[k])
    ELSE y = x

\* C14: _clean_for_json returns a value with no set at any depth: every set
\* replaced by a list of the same elements, every dict with the same keys,
\* every list with the same length and order, every scalar unchanged.
C14_CleanRemovesSets ==
    c1 # Absent => ~HasSet(c1) /\ SameButSets(cx, c1)

\* The understanding whose entities are the set {"rent", "food"}, inside a
\* list, was cleaned: the entities are a list of the two.
C14_Witness ==
    /\ c1 # Absent
    /\ IsList(cx) /\ Len(cx.list) = 1
    /\ IsDict(cx.list[1]) /\ "entities" \in DOMAIN cx.list[1].dict
    /\ cx.list[1].dict["entities"] = [set |-> Atoms]
    /\ IsList(c1.list[1].dict["entities"])
    /\ Len(c1.list[1].dict["entities"].list) = 2

\* The first 50 characters of the trimmed message of request t, followed by
\* "..." exactly when the message is longer.
DerivedTitle(t) ==
    LET m == Strip(req[t].body.text)
    IN  IF Len(m) > TitleLimit THEN SubSeq(m, 1, TitleLimit) \o <<".", ".", ".">> ELSE m

\* The exchange of request t commits in this step.
Commits(t) == spc[t] = "commit" /\ spc'[t] = "respond"

\* C12 as stated: after a committed exchange the title is the derived title if
\* the title the exchange found was empty or "New Conversation", and the title
\* it found otherwise.
C12_TitleAfterExchange ==
    [][\A t \in Requests :
          Commits(t) =>
              conv'[req[t].conv].title =
                  IF loaded[t].title \in {<<>>, NewConversation}
                    THEN DerivedTitle(t) ELSE loaded[t].title]_vars

\* C12, amended: a committed exchange writes the derived title if the title it
\* read was empty or "New Conversation" and the derived title differs from it;
\* otherwise it leaves the stored title as it is.
C12_TitleWrittenIfDerived ==
    [][\A t \in Requests :
          Commits(t) =>
              conv'[req[t].conv].title =
                  IF loaded[t].title \in {<<>>, NewConversation}
                        /\ DerivedTitle(t) # loaded[t].title
                    THEN DerivedTitle(t) ELSE conv[req[t].conv].title]_vars

\* An exchange with the longest message in a conversation titled "New
\* Conversation" has timed out and committed: the title is the first 50
\* characters and the marker.
C12_Witness ==
    \E t \in Requests :
        /\ spc[t] = "done" /\ resp[t].status = 200 /\ ai[t].kind = "timeout"
        /\ loaded[t].title = NewConversation
        /\ Len(content[t]) = MaxContent
        /\ conv[req[t].conv].title = SubSeq(content[t], 1, TitleLimit) \o <<".", ".", ".">>
        /\ Len(conv[req[t].conv].title) = TitleLimit + 3

\* The messages of the conversation of request t that the query of its
\* exchange can see, the just-added user message excepted.
PriorMessages(t) == {r \in Visible(t) : ~(r.call = t /\ r.n = 1)}

\* C11: the history passed to the engine never contains the just-added user
\* message and is the most recent prior messages of the conversation, at most
\* 9 of them, in chronological order, also when other exchanges commit
\* messages to the conversation concurrently.
C11_HistoryIsRecentPrior ==
    [][\A t \in Requests :
          (scenario.historyParam /\ spc[t] = "process" /\ spc'[t] = "invoke") =>
              LET h == history'[t]
                  P == PriorMessages(t)
              IN  /\ \A i \in 1..Len(h) : ~(h[i].call = t /\ h[i].n = 1)
                  /\ Len(h) = Min(HistoryLimit - 1, Cardinality(P))
                  /\ \A i \in 1..Len(h) : h[i] \in P
                  /\ \A i, j \in 1..Len(h) : i < j => CreatedAt(h[i]) < CreatedAt(h[j])
                  /\ \A r \in P : (\A i \in 1..Len(h) : h[i] # r)
                        => \A i \in 1..Len(h) : CreatedAt(r) < CreatedAt(h[i])]_vars

\* C18: the value passed to set_entities contains no set.
C18_EntitiesNormalized == \A t \in Requests : ~HasSet(entArg[t])

\* C19: when process_message is invoked for a request, the user the engine
\* works for is the user of that request.
C19_OwnUserAtInvocation ==
    \A t \in Requests : seenUser[t] # 0 => seenUser[t] = req[t].user

\* No thread is inside get_semantic_bot.
NoCallInProgress == \A t \in Threads : gpc[t] \in {"idle", "done", "ended"}

\* C21: if every SemanticChatbot() invocation terminates, every call of
\* get_semantic_bot terminates under fair scheduling, only a thread inside
\* the with block holds the lock, and the lock is free whenever no call is in
\* progress.
C21_CallsTerminate ==
    /\ \A t \in Threads : (gpc[t] = "start") ~> (gpc[t] = "done")
    /\ [](\A t \in Threads :
              lock = t => gpc[t] \in {"locked", "construct", "finally", "exit_with",
                                      "wait_event"})
    /\ [](NoCallInProgress => lock = Free)

\* Every call has ended, one of them with the RuntimeError of a failed
\* construction and one, which was blocked on the lock meanwhile, with the
\* handle; the lock is free.
C21_Witness ==
    /\ NoCallInProgress
    /\ lock = Free
    /\ \E t, u \in Threads :
          /\ gpc[t] = "done" /\ gres[t] = InitRaised
          /\ gpc[u] = "done" /\ gres[u].kind = "handle" /\ u \in sawFail

====
